---- MODULE Spec2Model ----
(***************************************************************************)
(* pg_globalxact: the two-phase-commit coordinator, its durable log and    *)
(* the recovery worker.                                                    *)
(*                                                                         *)
(* The live coordinator is the one of twophasecommit.c (tpc_prepare,       *)
(* tpc_commit, tpc_rollback, complete), the set is created lazily by       *)
(* tpc_txnset_register / tpc_txnset_begin and driven by the transaction    *)
(* callback txn_cleanup, the log codec is tpc_txnsetfile_write_phase,      *)
(* tpc_txnsetfile_write_action and tpc_txnset_from_file, and the recovery  *)
(* worker is tpc_process_file / bg_cleanup / check_txn.                    *)
(*                                                                         *)
(* A log line is the tuple of its whitespace separated tokens.  The stdio  *)
(* buffer of the log handle (buf) is kept apart from the content of the    *)
(* file (file): fprintf appends to buf, fflush and fclose move buf to the  *)
(* file, a crash of the backend loses buf.                                 *)
(***************************************************************************)
EXTENDS Integers, Sequences, FiniteSets, TLC

\* ------------------------------------------------------------------ bounds
MaxSets == 2
MaxCounter == 2
NumConns == 2
NumSessions == 2
NumGids == 2
MaxPrefixLen == 61
MaxNameCounter == 10

\* ------------------------------------------------------------------ phases
BEGIN == 0
PREPARE == 1
COMMIT == 2
ROLLBACK == 3
COMPLETE == 4
INCOMPLETE == 5

Phases == {BEGIN, PREPARE, COMMIT, ROLLBACK, COMPLETE, INCOMPLETE}

phase_labels == <<"begin", "prepare", "commit", "rollback", "complete", "incomplete">>

phases == <<BEGIN, PREPARE, COMMIT, ROLLBACK, COMPLETE, INCOMPLETE>>

Labels == {phase_labels[i] : i \in 1..6}

\* Arguments of tpc_phase_from_label: the six labels and strings that are not
\* in the table.
LabelInputs == Labels \cup {"", "done"}

\* tpc_phase_get_label: lookup of the label through the two tables.
tpc_phase_get_label(phase) ==
    LET hits == {i \in 1..6 : phases[i] = phase}
    IN  phase_labels[CHOOSE i \in hits : \A j \in hits : i <= j]

\* tpc_phase_from_label for a label of the table (the error path is the
\* caller's: an unknown label raises invalid txn phase).
tpc_phase_from_label(label) ==
    LET hits == {i \in 1..6 : phase_labels[i] = label}
    IN  phases[CHOOSE i \in hits : \A j \in hits : i <= j]

\* Variant: a set in PREPARE may be prepared again.
tpc_phase_is_valid_transition_RePrepare(old_phase, new_phase) ==
    CASE old_phase = BEGIN      -> new_phase = PREPARE
      [] old_phase = PREPARE    -> new_phase = PREPARE \/ new_phase = COMMIT \/ new_phase = ROLLBACK
      [] old_phase = COMMIT     -> new_phase = COMPLETE \/ new_phase = INCOMPLETE
      [] old_phase = ROLLBACK   -> new_phase = COMPLETE \/ new_phase = INCOMPLETE
      [] old_phase = INCOMPLETE -> new_phase = COMPLETE
      [] OTHER                  -> FALSE

\* Variant: the INCOMPLETE case of the switch is missing.
tpc_phase_is_valid_transition_NoRetry(old_phase, new_phase) ==
    CASE old_phase = BEGIN      -> new_phase = PREPARE
      [] old_phase = PREPARE    -> new_phase = COMMIT \/ new_phase = ROLLBACK
      [] old_phase = COMMIT     -> new_phase = COMPLETE \/ new_phase = INCOMPLETE
      [] old_phase = ROLLBACK   -> new_phase = COMPLETE \/ new_phase = INCOMPLETE
      [] OTHER                  -> FALSE

tpc_phase_is_valid_transition(old_phase, new_phase) ==
    CASE old_phase = BEGIN      -> new_phase = PREPARE
      [] old_phase = PREPARE    -> new_phase = COMMIT \/ new_phase = ROLLBACK
      [] old_phase = COMMIT     -> new_phase = COMPLETE \/ new_phase = INCOMPLETE
      [] old_phase = ROLLBACK   -> new_phase = COMPLETE \/ new_phase = INCOMPLETE
      [] old_phase = INCOMPLETE -> new_phase = COMPLETE
      [] OTHER                  -> FALSE

\* ------------------------------------------------------------------ values
NULL == 0

Conns == 1..NumConns

Sessions == 1..NumSessions

Gids == 1..NumGids

\* "%s_%d" of the set's prefix and the counter.
TxnName(prefix, n) == <<prefix, n>>

Names == {TxnName(p, n) : p \in 1..MaxSets, n \in 1..MaxCounter}

\* "postgresql://%s:%s/%s" of PQhost, PQport, PQdb of the connection.
ConnUrl(cnx) == <<"postgresql://", cnx>>

\* phasefmt
PhaseLine(phase) == <<"phase", tpc_phase_get_label(phase)>>

\* actionfmt
ActionLine(phase, txn, status) ==
    <<tpc_phase_get_label(phase), ConnUrl(txn.cnx), txn.txn_name, status>>

XactEvents == {"PRE_COMMIT", "PARALLEL_PRE_COMMIT", "COMMIT", "PARALLEL_COMMIT",
               "ABORT", "PARALLEL_ABORT", "PREPARE", "PRE_PREPARE"}

\* ------------------------------------------------------------------- state
VARIABLES
    nsets,          \* sets created so far by the session
    curr_txnset,    \* the per-session slot: NULL or the set
    xact_callbacks, \* number of registrations of txn_cleanup
    txn_prefix,     \* txnset->txn_prefix
    tpc_phase,      \* txnset->tpc_phase
    counter,        \* txnset->counter
    members,        \* the list head .. latest, in order
    txn,            \* the tpc_txn of the register call in progress
    can_complete,   \* local of tpc_commit / tpc_rollback
    curr,           \* position of the member loop of tpc_commit / tpc_rollback
    res,            \* TRUE iff PQresultStatus(res) = PGRES_COMMAND_OK
    pc,             \* position of the session
    error,          \* the error raised last by the session
    log_open,       \* txnset->log is an open handle
    buf,            \* lines in the stdio buffer of txnset->log
    file,           \* lines of the log file
    fileExists,     \* the log path exists in the directory
    remote,         \* state of each gid of the set last created on its remote
    up,             \* which remotes answer
    sent,           \* commands the session has sent, in order
    results,        \* outcome of each terminal command of the session
    bgw_extra,      \* file name of the last tpc_register_bgworker call
    wpc,            \* position of the recovery worker
    wphase,         \* the worker's txnset->tpc_phase
    wrollback,      \* parameter rollback of bg_cleanup
    wnodes,         \* the tpc_txn nodes the worker loaded
    whead,          \* the worker's txnset->head
    wnext,          \* next pointer of each node
    wlast,          \* local last of bg_cleanup
    wcurr,          \* local curr of bg_cleanup
    wsent,          \* terminal commands the worker has sent since its load
    t_old,          \* argument old_phase of a call of the phase automaton
    t_new,          \* argument new_phase, or phase, of such a call
    t_label,        \* argument label of such a call
    t_result,       \* the call made last and what it returned
    start_pc,       \* position of each session in tpc_txnsetfile_start
    start_gid,      \* argument local_globalid of each session's call
    logdir,         \* the files of the log directory, by local_globalid
    n_prefix,       \* strlen(txnset->txn_prefix) of a call of tpc_prepare
    n_counter,      \* txnset->counter at that call
    n_result        \* what the head of tpc_prepare did with these

svars == <<nsets, curr_txnset, xact_callbacks, txn_prefix, tpc_phase, counter,
           members, txn, can_complete, curr, res, pc, error>>

fvars == <<log_open, buf, file, fileExists>>

rvars == <<remote, up>>

hvars == <<sent, results, bgw_extra>>

wvars == <<wpc, wphase, wrollback, wnodes, whead, wnext, wlast, wcurr, wsent>>

tvars == <<t_old, t_new, t_label, t_result>>

cvars == <<start_pc, start_gid, logdir>>

nvars == <<n_prefix, n_counter, n_result>>

ovars == <<tvars, cvars, nvars>>

vars == <<svars, fvars, rvars, hvars, wvars, tvars, cvars, nvars>>

NoTxn == [cnx |-> NULL, txn_name |-> <<0, 0>>]

NoFile == [exists |-> FALSE, lines |-> <<>>]

NoName == [status |-> "none", length |-> 0]

NoCall == [op |-> "none", value |-> FALSE]

InitSet ==
    /\ nsets = 0
    /\ curr_txnset = NULL
    /\ xact_callbacks = 0
    /\ txn_prefix = 0
    /\ tpc_phase = BEGIN
    /\ counter = 0
    /\ members = <<>>
    /\ txn = NoTxn
    /\ can_complete = TRUE
    /\ curr = 0
    /\ res = FALSE
    /\ pc = "idle"
    /\ error = "none"
    /\ log_open = FALSE
    /\ buf = <<>>
    /\ file = <<>>
    /\ fileExists = FALSE
    /\ remote = [n \in Names |-> "none"]
    /\ up = [c \in Conns |-> TRUE]
    /\ sent = <<>>
    /\ results = <<>>
    /\ bgw_extra = NULL
    /\ wpc = "off"
    /\ wphase = BEGIN
    /\ wrollback = FALSE
    /\ wnodes = <<>>
    /\ whead = NULL
    /\ wnext = <<>>
    /\ wlast = NULL
    /\ wcurr = NULL
    /\ wsent = {}

\* No session is in tpc_txnsetfile_start and the log directory is empty.
InitStart ==
    /\ start_pc = [s \in Sessions |-> "idle"]
    /\ start_gid = [s \in Sessions |-> NULL]
    /\ logdir = [g \in Gids |-> NoFile]

InitCalls ==
    /\ InitStart
    /\ n_prefix = 0
    /\ n_counter = 0
    /\ n_result = NoName

Init ==
    /\ InitSet
    /\ InitCalls
    /\ t_old = BEGIN
    /\ t_new = BEGIN
    /\ t_label = "begin"
    /\ t_result = NoCall


\* --------------------------------------------------------------- the remote
\* Outcomes of PQexec of a command on connection cnx: the command is
\* executed and acknowledged ("ok"), not executed ("fail"), or executed
\* while the reply does not arrive ("lost", reported like a failure).
PrepareOutcomes(cnx) ==
    IF up[cnx] THEN {"ok", "fail", "lost"} ELSE {"fail"}

ResolveOutcomes(cnx, name) ==
    IF up[cnx] /\ remote[name] = "prepared" THEN {"ok", "lost"} ELSE {"fail"}

Executed(outcome) == outcome \in {"ok", "lost"}

CommandOk(outcome) == outcome = "ok"

\* --------------------------------------------------------------- the codec
\* fprintf(txnset->log, phasefmt, ...): the line stays in the stdio buffer.
tpc_txnsetfile_write_phase(b, phase) == Append(b, PhaseLine(phase))

\* fprintf(txnset->log, actionfmt, ...); fflush(txnset->log): the buffer,
\* the new line included, reaches the file.
tpc_txnsetfile_write_action(f, b, phase, t, status) ==
    f \o Append(b, ActionLine(phase, t, status))

\* ------------------------------------------------------------ registration
\* tpc_txnset_begin: the BEGIN line is printed to the handle of the
\* zero-filled set, before tpc_txnsetfile_start opens the log; the call on
\* the null handle either ends the backend or is dropped.
tpc_txnset_begin(cnx, null_write) ==
    /\ nsets < MaxSets
    /\ ~fileExists
    /\ wpc = "off"
    /\ nsets' = nsets + 1
    /\ curr_txnset' = nsets + 1
    /\ tpc_phase' = BEGIN
    /\ members' = <<>>
    /\ sent' = <<>>
    /\ results' = <<>>
    /\ wsent' = {}
    /\ IF null_write = "crash"
       THEN /\ pc' = "crashed"
            /\ txn' = NoTxn
            /\ counter' = 0
            /\ UNCHANGED <<txn_prefix, xact_callbacks, fvars>>
       ELSE /\ txn_prefix' = nsets + 1
            /\ fileExists' = TRUE
            /\ file' = <<>>
            /\ buf' = <<>>
            /\ log_open' = TRUE
            /\ counter' = 0
            /\ xact_callbacks' = xact_callbacks + 1
            /\ txn' = [cnx |-> cnx, txn_name |-> <<0, 0>>]
            /\ pc' = "register"
    /\ remote' = [n \in Names |-> "none"]
    /\ can_complete' = TRUE
    /\ curr' = 0
    /\ res' = FALSE
    /\ error' = "none"
    /\ bgw_extra' = NULL
    /\ UNCHANGED up
    /\ UNCHANGED <<wpc, wphase, wrollback, wnodes, whead, wnext, wlast, wcurr>>

\* tpc_txnset_register: creates the set when the slot is empty, then the
\* connection is prepared by tpc_prepare.
tpc_txnset_register(cnx) ==
    /\ pc = "idle"
    /\ IF curr_txnset = NULL
       THEN \E null_write \in {"dropped", "crash"} : tpc_txnset_begin(cnx, null_write)
       ELSE /\ txn' = [cnx |-> cnx, txn_name |-> <<0, 0>>]
            /\ pc' = "register"
            /\ UNCHANGED <<nsets, curr_txnset, xact_callbacks, txn_prefix, tpc_phase,
                           counter, members, can_complete, curr, res, error>>
            /\ UNCHANGED <<fvars, rvars, hvars, wvars>>
    /\ UNCHANGED ovars

\* Variant: the todo line is printed without the fflush, so it is still in
\* the stdio buffer when the PREPARE TRANSACTION goes out.
tpc_prepare_NoFlush ==
    /\ pc = "register"
    /\ counter < MaxCounter
    /\ counter' = counter + 1
    /\ txn' = [txn EXCEPT !.txn_name = TxnName(txn_prefix, counter + 1)]
    /\ IF ~tpc_phase_is_valid_transition(tpc_phase, PREPARE)
       THEN /\ error' = "InvalidTxnState"
            /\ pc' = "aborting"
            /\ UNCHANGED <<tpc_phase, fvars>>
       ELSE /\ tpc_phase' = PREPARE
            /\ buf' = Append(tpc_txnsetfile_write_phase(buf, PREPARE),
                             ActionLine(PREPARE, txn', "todo"))
            /\ pc' = "prepare_exec"
            /\ UNCHANGED <<error, log_open, file, fileExists>>
    /\ UNCHANGED <<nsets, curr_txnset, xact_callbacks, txn_prefix, members,
                   can_complete, curr, res>>
    /\ UNCHANGED <<rvars, hvars, wvars>>
    /\ UNCHANGED ovars

\* tpc_prepare up to the PQexec: the name, the transition check, the PREPARE
\* phase line and the todo action line.
tpc_prepare ==
    /\ pc = "register"
    /\ counter < MaxCounter
    /\ counter' = counter + 1
    /\ txn' = [txn EXCEPT !.txn_name = TxnName(txn_prefix, counter + 1)]
    /\ IF ~tpc_phase_is_valid_transition(tpc_phase, PREPARE)
       THEN /\ error' = "InvalidTxnState"
            /\ pc' = "aborting"
            /\ UNCHANGED <<tpc_phase, fvars>>
       ELSE /\ tpc_phase' = PREPARE
            /\ file' = tpc_txnsetfile_write_action(file,
                            tpc_txnsetfile_write_phase(buf, PREPARE), PREPARE, txn', "todo")
            /\ buf' = <<>>
            /\ pc' = "prepare_exec"
            /\ UNCHANGED <<error, log_open, fileExists>>
    /\ UNCHANGED <<nsets, curr_txnset, xact_callbacks, txn_prefix, members,
                   can_complete, curr, res>>
    /\ UNCHANGED <<rvars, hvars, wvars>>
    /\ UNCHANGED ovars


\* Variant: the member is linked into the list before the result is checked.
tpc_prepare_exec_LinkFirst ==
    /\ pc = "prepare_exec"
    /\ \E outcome \in PrepareOutcomes(txn.cnx) :
        /\ remote' = IF Executed(outcome)
                     THEN [remote EXCEPT ![txn.txn_name] = "prepared"]
                     ELSE remote
        /\ res' = CommandOk(outcome)
        /\ members' = Append(members, txn)
        /\ IF CommandOk(outcome)
           THEN /\ pc' = "idle"
                /\ error' = error
           ELSE /\ pc' = "aborting"
                /\ error' = "InvalidTxnState"
    /\ sent' = Append(sent, <<"PREPARE", txn.txn_name>>)
    /\ UNCHANGED <<nsets, curr_txnset, xact_callbacks, txn_prefix, tpc_phase, counter,
                   txn, can_complete, curr>>
    /\ UNCHANGED <<fvars, up, results, bgw_extra, wvars>>
    /\ UNCHANGED ovars

\* tpc_prepare from the PQexec on: a failed PREPARE TRANSACTION raises, an
\* acknowledged one appends the member.
tpc_prepare_exec ==
    /\ pc = "prepare_exec"
    /\ \E outcome \in PrepareOutcomes(txn.cnx) :
        /\ remote' = IF Executed(outcome)
                     THEN [remote EXCEPT ![txn.txn_name] = "prepared"]
                     ELSE remote
        /\ res' = CommandOk(outcome)
        /\ IF CommandOk(outcome)
           THEN /\ members' = Append(members, txn)
                /\ pc' = "idle"
                /\ error' = error
           ELSE /\ members' = members
                /\ pc' = "aborting"
                /\ error' = "InvalidTxnState"
    /\ sent' = Append(sent, <<"PREPARE", txn.txn_name>>)
    /\ UNCHANGED <<nsets, curr_txnset, xact_callbacks, txn_prefix, tpc_phase, counter,
                   txn, can_complete, curr>>
    /\ UNCHANGED <<fvars, up, results, bgw_extra, wvars>>
    /\ UNCHANGED ovars

\* ------------------------------------------------------ commit and rollback
\* Variant: the entry of tpc_commit / tpc_rollback without the phase check.
DriveEnter_Unchecked(phase) ==
    /\ buf' = tpc_txnsetfile_write_phase(buf, phase)
    /\ tpc_phase' = phase
    /\ can_complete' = TRUE
    /\ curr' = 1
    /\ pc' = IF members = <<>> THEN "complete"
             ELSE IF phase = COMMIT THEN "commit_exec" ELSE "rollback_exec"
    /\ error' = error
    /\ UNCHANGED <<nsets, curr_txnset, xact_callbacks, txn_prefix, counter, members,
                   txn, res>>
    /\ UNCHANGED <<log_open, file, fileExists, rvars, hvars, wvars>>

\* Variant: the member loop is not entered.
DriveEnter_SkipLoop(phase) ==
    /\ IF tpc_phase # PREPARE
       THEN /\ error' = "InvalidTxnState"
            /\ pc' = IF phase = COMMIT THEN "aborting" ELSE "abort_failed"
            /\ UNCHANGED <<tpc_phase, can_complete, curr, buf>>
       ELSE /\ buf' = tpc_txnsetfile_write_phase(buf, phase)
            /\ tpc_phase' = phase
            /\ can_complete' = TRUE
            /\ curr' = 1
            /\ pc' = "complete"
            /\ error' = error
    /\ UNCHANGED <<nsets, curr_txnset, xact_callbacks, txn_prefix, counter, members,
                   txn, res>>
    /\ UNCHANGED <<log_open, file, fileExists, rvars, hvars, wvars>>

\* Entry of tpc_commit / tpc_rollback: the phase check, the phase line, the
\* phase, and the start of the member loop.
DriveEnter(phase) ==
    /\ IF tpc_phase # PREPARE
       THEN /\ error' = "InvalidTxnState"
            /\ pc' = IF phase = COMMIT THEN "aborting" ELSE "abort_failed"
            /\ UNCHANGED <<tpc_phase, can_complete, curr, buf>>
       ELSE /\ buf' = tpc_txnsetfile_write_phase(buf, phase)
            /\ tpc_phase' = phase
            /\ can_complete' = TRUE
            /\ curr' = 1
            /\ pc' = IF members = <<>> THEN "complete"
                     ELSE IF phase = COMMIT THEN "commit_exec" ELSE "rollback_exec"
            /\ error' = error
    /\ UNCHANGED <<nsets, curr_txnset, xact_callbacks, txn_prefix, counter, members,
                   txn, res>>
    /\ UNCHANGED <<log_open, file, fileExists, rvars, hvars, wvars>>

\* tpc_commit / tpc_rollback of the callback read curr_txnset->tpc_phase:
\* with the slot empty this is a null dereference and the backend dies.
NullSlot ==
    /\ pc' = "crashed"
    /\ UNCHANGED <<nsets, curr_txnset, xact_callbacks, txn_prefix, tpc_phase, counter,
                   members, txn, can_complete, curr, res, error>>
    /\ UNCHANGED <<fvars, rvars, hvars, wvars>>

\* Variant: the prepare events fall through to the commit case.
txn_cleanup_PrepareCommits(event) ==
    /\ xact_callbacks > 0
    /\ CASE event \in {"PREPARE", "PRE_PREPARE", "COMMIT", "PARALLEL_COMMIT",
                       "PRE_COMMIT", "PARALLEL_PRE_COMMIT"} ->
              /\ pc = "idle"
              /\ IF curr_txnset = NULL THEN NullSlot ELSE DriveEnter(COMMIT)
         [] event \in {"ABORT", "PARALLEL_ABORT"} ->
              /\ pc \in {"idle", "aborting"}
              /\ IF curr_txnset = NULL THEN NullSlot ELSE DriveEnter(ROLLBACK)
    /\ UNCHANGED ovars

\* txn_cleanup: the transaction callback, called for every event while it is
\* registered.
txn_cleanup(event) ==
    /\ xact_callbacks > 0
    /\ CASE event \in {"PREPARE", "PRE_PREPARE"} ->
              /\ pc = "idle"
              /\ error' = "FeatureNotSupported"
              /\ pc' = "aborting"
              /\ UNCHANGED <<nsets, curr_txnset, xact_callbacks, txn_prefix, tpc_phase,
                             counter, members, txn, can_complete, curr, res>>
              /\ UNCHANGED <<fvars, rvars, hvars, wvars>>
         [] event \in {"COMMIT", "PARALLEL_COMMIT", "PRE_COMMIT", "PARALLEL_PRE_COMMIT"} ->
              /\ pc = "idle"
              /\ IF curr_txnset = NULL THEN NullSlot ELSE DriveEnter(COMMIT)
         [] event \in {"ABORT", "PARALLEL_ABORT"} ->
              /\ pc \in {"idle", "aborting"}
              /\ IF curr_txnset = NULL THEN NullSlot ELSE DriveEnter(ROLLBACK)
    /\ UNCHANGED ovars

\* Variant: the command is built from the prefix and the current counter
\* instead of the name kept in the member.
DriveExec_LatestName(cmd, next_pc) ==
    /\ \E outcome \in ResolveOutcomes(members[curr].cnx, TxnName(txn_prefix, counter)) :
        /\ remote' = IF Executed(outcome)
                     THEN [remote EXCEPT ![TxnName(txn_prefix, counter)] =
                              IF cmd = "COMMIT" THEN "committed" ELSE "rolledback"]
                     ELSE remote
        /\ res' = CommandOk(outcome)
    /\ sent' = Append(sent, <<cmd, TxnName(txn_prefix, counter)>>)
    /\ pc' = next_pc
    /\ UNCHANGED <<nsets, curr_txnset, xact_callbacks, txn_prefix, tpc_phase, counter,
                   members, txn, can_complete, curr, error>>
    /\ UNCHANGED <<fvars, up, results, bgw_extra, wvars>>

\* Variant: the action line of a terminal command is written, as OK, before
\* the command is sent.
DriveExec_LogFirst(cmd, next_pc) ==
    /\ \E outcome \in ResolveOutcomes(members[curr].cnx, members[curr].txn_name) :
        /\ remote' = IF Executed(outcome)
                     THEN [remote EXCEPT ![members[curr].txn_name] =
                              IF cmd = "COMMIT" THEN "committed" ELSE "rolledback"]
                     ELSE remote
        /\ res' = CommandOk(outcome)
    /\ file' = tpc_txnsetfile_write_action(file, buf, tpc_phase, members[curr], "OK")
    /\ buf' = <<>>
    /\ sent' = Append(sent, <<cmd, members[curr].txn_name>>)
    /\ pc' = next_pc
    /\ UNCHANGED <<nsets, curr_txnset, xact_callbacks, txn_prefix, tpc_phase, counter,
                   members, txn, can_complete, curr, error>>
    /\ UNCHANGED <<log_open, fileExists, up, results, bgw_extra, wvars>>

\* One PQexec of the member loop.
DriveExec(cmd, next_pc) ==
    /\ \E outcome \in ResolveOutcomes(members[curr].cnx, members[curr].txn_name) :
        /\ remote' = IF Executed(outcome)
                     THEN [remote EXCEPT ![members[curr].txn_name] =
                              IF cmd = "COMMIT" THEN "committed" ELSE "rolledback"]
                     ELSE remote
        /\ res' = CommandOk(outcome)
    /\ sent' = Append(sent, <<cmd, members[curr].txn_name>>)
    /\ pc' = next_pc
    /\ UNCHANGED <<nsets, curr_txnset, xact_callbacks, txn_prefix, tpc_phase, counter,
                   members, txn, can_complete, curr, error>>
    /\ UNCHANGED <<fvars, up, results, bgw_extra, wvars>>

\* Variant: only an acknowledged command gets its action line.
DriveLog_SkipBad(exec_pc) ==
    /\ can_complete' = (can_complete /\ res)
    /\ file' = IF res
               THEN tpc_txnsetfile_write_action(file, buf, tpc_phase, members[curr], "OK")
               ELSE file \o buf
    /\ buf' = <<>>
    /\ results' = Append(results, res)
    /\ curr' = curr + 1
    /\ pc' = IF curr + 1 > Len(members) THEN "complete" ELSE exec_pc
    /\ UNCHANGED <<nsets, curr_txnset, xact_callbacks, txn_prefix, tpc_phase, counter,
                   members, txn, res, error>>
    /\ UNCHANGED <<log_open, fileExists, rvars, sent, bgw_extra, wvars>>

\* Variant: can_complete is not updated in the loop.
DriveLog_KeepCanComplete(exec_pc) ==
    /\ can_complete' = can_complete
    /\ file' = tpc_txnsetfile_write_action(file, buf, tpc_phase, members[curr],
                                           IF res THEN "OK" ELSE "BAD")
    /\ buf' = <<>>
    /\ results' = Append(results, res)
    /\ curr' = curr + 1
    /\ pc' = IF curr + 1 > Len(members) THEN "complete" ELSE exec_pc
    /\ UNCHANGED <<nsets, curr_txnset, xact_callbacks, txn_prefix, tpc_phase, counter,
                   members, txn, res, error>>
    /\ UNCHANGED <<log_open, fileExists, rvars, sent, bgw_extra, wvars>>

\* Variant: a failed terminal command is raised with ereport(ERROR).
DriveLog_Raise(exec_pc) ==
    /\ can_complete' = (can_complete /\ res)
    /\ file' = tpc_txnsetfile_write_action(file, buf, tpc_phase, members[curr],
                                           IF res THEN "OK" ELSE "BAD")
    /\ buf' = <<>>
    /\ results' = Append(results, res)
    /\ curr' = curr + 1
    /\ pc' = IF ~res THEN "abort_failed"
             ELSE IF curr + 1 > Len(members) THEN "complete" ELSE exec_pc
    /\ error' = IF ~res THEN "InvalidTxnState" ELSE error
    /\ UNCHANGED <<nsets, curr_txnset, xact_callbacks, txn_prefix, tpc_phase, counter,
                   members, txn, res>>
    /\ UNCHANGED <<log_open, fileExists, rvars, sent, bgw_extra, wvars>>

\* The rest of one iteration: can_complete, the action line, the next member.
DriveLog(exec_pc) ==
    /\ can_complete' = (can_complete /\ res)
    /\ file' = tpc_txnsetfile_write_action(file, buf, tpc_phase, members[curr],
                                           IF res THEN "OK" ELSE "BAD")
    /\ buf' = <<>>
    /\ results' = Append(results, res)
    /\ curr' = curr + 1
    /\ pc' = IF curr + 1 > Len(members) THEN "complete" ELSE exec_pc
    /\ UNCHANGED <<nsets, curr_txnset, xact_callbacks, txn_prefix, tpc_phase, counter,
                   members, txn, res, error>>
    /\ UNCHANGED <<log_open, fileExists, rvars, sent, bgw_extra, wvars>>

tpc_commit_exec == pc = "commit_exec" /\ DriveExec("COMMIT", "commit_log") /\ UNCHANGED ovars

tpc_commit_log == pc = "commit_log" /\ DriveLog("commit_exec") /\ UNCHANGED ovars

tpc_rollback_exec == pc = "rollback_exec" /\ DriveExec("ROLLBACK", "rollback_log") /\ UNCHANGED ovars

tpc_rollback_log == pc = "rollback_log" /\ DriveLog("rollback_exec") /\ UNCHANGED ovars

\* Outcomes of tpc_register_bgworker: the worker is started, the registration
\* fails with a warning, or the writes through bgw, which was allocated with
\* the size of a pointer, bring the backend down (the file name has been
\* handed over by then).
BgwOutcomes == {"started", "failed", "overrun"}

\* tpc_register_bgworker as called by complete, when it returns.
tpc_register_bgworker(started) ==
    IF started /\ wpc = "off" THEN "start" ELSE wpc

\* Variant: complete writes the terminal phase line and leaves the handle open.
complete_write_NoClose ==
    /\ pc = "complete"
    /\ file' = file \o tpc_txnsetfile_write_phase(buf,
                          IF can_complete THEN COMPLETE ELSE INCOMPLETE)
    /\ buf' = <<>>
    /\ log_open' = log_open
    /\ pc' = "complete_end"
    /\ UNCHANGED <<nsets, curr_txnset, xact_callbacks, txn_prefix, tpc_phase, counter,
                   members, txn, can_complete, curr, res, error>>
    /\ UNCHANGED <<fileExists, rvars, hvars, wvars>>
    /\ UNCHANGED ovars

\* complete, first half: the terminal phase line and fclose.
complete_write ==
    /\ pc = "complete"
    /\ file' = file \o tpc_txnsetfile_write_phase(buf,
                          IF can_complete THEN COMPLETE ELSE INCOMPLETE)
    /\ buf' = <<>>
    /\ log_open' = FALSE
    /\ pc' = "complete_end"
    /\ UNCHANGED <<nsets, curr_txnset, xact_callbacks, txn_prefix, tpc_phase, counter,
                   members, txn, can_complete, curr, res, error>>
    /\ UNCHANGED <<fileExists, rvars, hvars, wvars>>
    /\ UNCHANGED ovars

\* Variant: the slot is cleared and the callback stays registered.
cleanup_KeepCallback ==
    /\ xact_callbacks' = xact_callbacks
    /\ curr_txnset' = NULL

\* cleanup: unregisters the callback and clears the slot.
cleanup ==
    /\ xact_callbacks' = xact_callbacks - 1
    /\ curr_txnset' = NULL

\* Variant: the log is unlinked whether or not the set could complete.
complete_end_AlwaysUnlink ==
    /\ pc = "complete_end"
    /\ IF can_complete
       THEN /\ tpc_phase' = COMPLETE
            /\ fileExists' = FALSE
            /\ cleanup
            /\ pc' = "idle"
            /\ UNCHANGED <<bgw_extra, wpc>>
       ELSE \E outcome \in BgwOutcomes :
            IF outcome = "overrun"
            THEN /\ pc' = "crashed"
                 /\ bgw_extra' = txn_prefix
                 /\ UNCHANGED <<curr_txnset, xact_callbacks, tpc_phase, fileExists, wpc>>
            ELSE /\ wpc' = tpc_register_bgworker(outcome = "started")
                 /\ bgw_extra' = txn_prefix
                 /\ tpc_phase' = INCOMPLETE
                 /\ fileExists' = FALSE
                 /\ cleanup
                 /\ pc' = "idle"
    /\ UNCHANGED <<nsets, txn_prefix, counter, members, txn, can_complete, curr, res, error>>
    /\ UNCHANGED <<log_open, buf, file, rvars, sent, results>>
    /\ UNCHANGED <<wphase, wrollback, wnodes, whead, wnext, wlast, wcurr, wsent>>
    /\ UNCHANGED ovars

\* complete, second half, and the cleanup that follows the return of
\* tpc_commit / tpc_rollback in txn_cleanup.
complete_end ==
    /\ pc = "complete_end"
    /\ IF can_complete
       THEN /\ tpc_phase' = COMPLETE
            /\ fileExists' = FALSE
            /\ cleanup
            /\ pc' = "idle"
            /\ UNCHANGED <<bgw_extra, wpc>>
       ELSE \E outcome \in BgwOutcomes :
            IF outcome = "overrun"
            THEN /\ pc' = "crashed"
                 /\ bgw_extra' = txn_prefix
                 /\ UNCHANGED <<curr_txnset, xact_callbacks, tpc_phase, fileExists, wpc>>
            ELSE /\ wpc' = tpc_register_bgworker(outcome = "started")
                 /\ bgw_extra' = txn_prefix
                 /\ tpc_phase' = INCOMPLETE
                 /\ UNCHANGED fileExists
                 /\ cleanup
                 /\ pc' = "idle"
    /\ UNCHANGED <<nsets, txn_prefix, counter, members, txn, can_complete, curr, res, error>>
    /\ UNCHANGED <<log_open, buf, file, rvars, sent, results>>
    /\ UNCHANGED <<wphase, wrollback, wnodes, whead, wnext, wlast, wcurr, wsent>>
    /\ UNCHANGED ovars

\* The backend dies: the stdio buffer is lost with it.
Crash ==
    /\ curr_txnset # NULL
    /\ pc \notin {"crashed", "abort_failed"}
    /\ pc' = "crashed"
    /\ buf' = <<>>
    /\ log_open' = FALSE
    /\ UNCHANGED <<nsets, curr_txnset, xact_callbacks, txn_prefix, tpc_phase, counter,
                   members, txn, can_complete, curr, res, error>>
    /\ UNCHANGED <<file, fileExists, rvars, hvars, wvars>>
    /\ UNCHANGED ovars

\* A remote stops or resumes answering.
RemoteDown(c) ==
    /\ up[c]
    /\ up' = [up EXCEPT ![c] = FALSE]
    /\ UNCHANGED <<svars, fvars, remote, hvars, wvars>>
    /\ UNCHANGED ovars

RemoteUp(c) ==
    /\ ~up[c]
    /\ up' = [up EXCEPT ![c] = TRUE]
    /\ UNCHANGED <<svars, fvars, remote, hvars, wvars>>
    /\ UNCHANGED ovars


\* ------------------------------------------------------- the recovery worker
\* tpc_txnset_from_file, the phase: every line that starts with "phase" sets
\* the phase from its label; the phase of a file without such a line is the
\* one passed in.
RECURSIVE FromFilePhase(_, _)
FromFilePhase(lines, phase) ==
    IF lines = <<>> THEN phase
    ELSE FromFilePhase(Tail(lines),
                       IF Head(lines)[1] = "phase"
                       THEN tpc_phase_from_label(Head(lines)[2])
                       ELSE phase)

HasPhaseLine(lines) == \E i \in 1..Len(lines) : lines[i][1] = "phase"

\* tpc_txnset_from_file, the members: every other line whose second token
\* is a postgresql:// connection string gives one tpc_txn, in file order.
RECURSIVE FromFileNodes(_)
FromFileNodes(lines) ==
    IF lines = <<>> THEN <<>>
    ELSE IF Head(lines)[1] # "phase" /\ Head(lines)[2][1] = "postgresql://"
         THEN <<[cnx |-> Head(lines)[2][2], txn_name |-> Head(lines)[3],
                 finished |-> FALSE]>> \o FromFileNodes(Tail(lines))
         ELSE FromFileNodes(Tail(lines))

\* The memory of a worker process that has ended.
WorkerGone ==
    /\ wphase' = BEGIN
    /\ wrollback' = FALSE
    /\ wnodes' = <<>>
    /\ whead' = NULL
    /\ wnext' = <<>>
    /\ wlast' = NULL
    /\ wcurr' = NULL
    /\ wsent' = {}

\* tpc_cleanup: the administrator starts a worker for the file of a set
\* whose session has ended.
tpc_cleanup ==
    /\ nsets > 0
    /\ wpc = "off"
    /\ pc = "crashed" \/ (pc = "idle" /\ curr_txnset = NULL)
    /\ wpc' = "start"
    /\ UNCHANGED <<svars, fvars, rvars, hvars>>
    /\ UNCHANGED <<wphase, wrollback, wnodes, whead, wnext, wlast, wcurr, wsent>>
    /\ UNCHANGED ovars

\* Variant: bg_cleanup is always called with rollback = true.
tpc_process_file_AlwaysRollback ==
    /\ wpc = "start"
    /\ IF ~fileExists
       THEN /\ wpc' = "off"
            /\ WorkerGone
       ELSE /\ wnodes' = FromFileNodes(file)
            /\ \E garbage \in Phases :
                  wphase' = IF HasPhaseLine(file) THEN FromFilePhase(file, BEGIN)
                            ELSE garbage
            /\ wrollback' = TRUE
            /\ whead' = IF wnodes' = <<>> THEN NULL ELSE 1
            /\ wnext' = [i \in 1..Len(wnodes') |-> IF i < Len(wnodes') THEN i + 1 ELSE NULL]
            /\ wlast' = NULL
            /\ wcurr' = NULL
            /\ wsent' = {}
            /\ wpc' = "pass"
    /\ UNCHANGED <<svars, fvars, rvars, hvars>>
    /\ UNCHANGED ovars

\* tpc_process_file up to the call of bg_cleanup: the set is loaded and the
\* terminal command is chosen from the phase the load ended with.  The phase
\* of a file without a phase line is the uninitialized field of the set.
tpc_process_file ==
    /\ wpc = "start"
    /\ IF ~fileExists
       THEN /\ wpc' = "off"
            /\ WorkerGone
       ELSE /\ wnodes' = FromFileNodes(file)
            /\ \E garbage \in Phases :
                  wphase' = IF HasPhaseLine(file) THEN FromFilePhase(file, BEGIN)
                            ELSE garbage
            /\ wrollback' = (wphase' # COMMIT)
            /\ whead' = IF wnodes' = <<>> THEN NULL ELSE 1
            /\ wnext' = [i \in 1..Len(wnodes') |-> IF i < Len(wnodes') THEN i + 1 ELSE NULL]
            /\ wlast' = NULL
            /\ wcurr' = NULL
            /\ wsent' = {}
            /\ wpc' = "pass"
    /\ UNCHANGED <<svars, fvars, rvars, hvars>>
    /\ UNCHANGED ovars

\* bg_cleanup, the head of one pass of the do loop.
bg_cleanup_pass ==
    /\ wpc = "pass"
    /\ wcurr' = whead
    /\ wpc' = IF whead = NULL THEN "pass_end" ELSE "probe"
    /\ UNCHANGED <<svars, fvars, rvars, hvars>>
    /\ UNCHANGED <<wphase, wrollback, wnodes, whead, wnext, wlast, wsent>>
    /\ UNCHANGED ovars

\* The splice of bg_cleanup and check_txn: last->next or the head skips curr.
Splice(nxt, last, c) == IF last # NULL THEN [nxt EXCEPT ![last] = nxt[c]] ELSE nxt

SpliceHead(head, nxt, last, c) == IF last # NULL THEN head ELSE nxt[c]

\* Variant: after a failed probe the loop continues with the next member,
\* without the terminal command.
check_txn_FailureContinues ==
    /\ wpc = "probe"
    /\ IF wnodes[wcurr].finished
       THEN \E use_after_free \in {"crash", "failed"} :
               IF use_after_free = "crash"
               THEN wpc' = "off" /\ WorkerGone
               ELSE /\ wpc' = "command_unprobed"
                    /\ UNCHANGED <<wphase, wrollback, wnodes, whead, wnext, wlast,
                                   wcurr, wsent>>
       ELSE IF ~up[wnodes[wcurr].cnx]
            THEN /\ wcurr' = wnext[wcurr]
                 /\ wpc' = IF wcurr' = NULL THEN "pass_end" ELSE "probe"
                 /\ UNCHANGED <<wphase, wrollback, wnodes, whead, wnext, wlast, wsent>>
            ELSE IF remote[wnodes[wcurr].txn_name] = "prepared"
                 THEN /\ wpc' = "command"
                      /\ UNCHANGED <<wphase, wrollback, wnodes, whead, wnext, wlast,
                                     wcurr, wsent>>
                 ELSE /\ wnodes' = [wnodes EXCEPT ![wcurr].finished = TRUE]
                      /\ wnext' = Splice(wnext, wlast, wcurr)
                      /\ whead' = SpliceHead(whead, wnext, wlast, wcurr)
                      /\ wcurr' = wnext'[wcurr]
                      /\ wpc' = IF wcurr' = NULL THEN "pass_end" ELSE "probe"
                      /\ UNCHANGED <<wphase, wrollback, wlast, wsent>>
    /\ UNCHANGED <<svars, fvars, rvars, hvars>>
    /\ UNCHANGED ovars

\* check_txn for the member curr: the query fails, finds the gid, or finds no
\* row; in the first two cases bg_cleanup goes on to the terminal command
\* (wpc tells them apart).  A member whose connection was finished by an
\* earlier check_txn and that is still linked is used after PQfinish: the
\* worker dies or the query on it fails.
check_txn ==
    /\ wpc = "probe"
    /\ IF wnodes[wcurr].finished
       THEN \E use_after_free \in {"crash", "failed"} :
               IF use_after_free = "crash"
               THEN wpc' = "off" /\ WorkerGone
               ELSE /\ wpc' = "command_unprobed"
                    /\ UNCHANGED <<wphase, wrollback, wnodes, whead, wnext, wlast,
                                   wcurr, wsent>>
       ELSE IF ~up[wnodes[wcurr].cnx]
            THEN /\ wpc' = "command_unprobed"
                 /\ UNCHANGED <<wphase, wrollback, wnodes, whead, wnext, wlast,
                                wcurr, wsent>>
            ELSE IF remote[wnodes[wcurr].txn_name] = "prepared"
                 THEN /\ wpc' = "command"
                      /\ UNCHANGED <<wphase, wrollback, wnodes, whead, wnext, wlast,
                                     wcurr, wsent>>
                 ELSE /\ wnodes' = [wnodes EXCEPT ![wcurr].finished = TRUE]
                      /\ wnext' = Splice(wnext, wlast, wcurr)
                      /\ whead' = SpliceHead(whead, wnext, wlast, wcurr)
                      /\ wcurr' = wnext'[wcurr]
                      /\ wpc' = IF wcurr' = NULL THEN "pass_end" ELSE "probe"
                      /\ UNCHANGED <<wphase, wrollback, wlast, wsent>>
    /\ UNCHANGED <<svars, fvars, rvars, hvars>>
    /\ UNCHANGED ovars

\* Variant: the member is spliced out whether or not its command succeeded.
bg_cleanup_command_SpliceAlways ==
    /\ wpc \in {"command", "command_unprobed"}
    /\ LET name == wnodes[wcurr].txn_name
           cmd == IF wrollback THEN "ROLLBACK" ELSE "COMMIT"
       IN  /\ wsent' = wsent \cup {<<cmd, name>>}
           /\ \E outcome \in (IF wnodes[wcurr].finished THEN {"fail"}
                              ELSE ResolveOutcomes(wnodes[wcurr].cnx, name)) :
                /\ remote' = IF Executed(outcome)
                             THEN [remote EXCEPT ![name] =
                                     IF wrollback THEN "rolledback" ELSE "committed"]
                             ELSE remote
                /\ wnext' = Splice(wnext, wlast, wcurr)
                /\ whead' = SpliceHead(whead, wnext, wlast, wcurr)
                /\ wlast' = wlast
    /\ wcurr' = wnext'[wcurr]
    /\ wpc' = IF wcurr' = NULL THEN "pass_end" ELSE "probe"
    /\ UNCHANGED <<svars, fvars, up, hvars>>
    /\ UNCHANGED <<wphase, wrollback, wnodes>>
    /\ UNCHANGED ovars

\* Variant: the worker records the outcome of its command in the log, as the
\* coordinator does.
bg_cleanup_command_LogsOutcome ==
    /\ wpc \in {"command", "command_unprobed"}
    /\ LET name == wnodes[wcurr].txn_name
           cmd == IF wrollback THEN "ROLLBACK" ELSE "COMMIT"
       IN  /\ wsent' = wsent \cup {<<cmd, name>>}
           /\ \E outcome \in (IF wnodes[wcurr].finished THEN {"fail"}
                              ELSE ResolveOutcomes(wnodes[wcurr].cnx, name)) :
                /\ remote' = IF Executed(outcome)
                             THEN [remote EXCEPT ![name] =
                                     IF wrollback THEN "rolledback" ELSE "committed"]
                             ELSE remote
                /\ IF CommandOk(outcome)
                   THEN /\ wnext' = Splice(wnext, wlast, wcurr)
                        /\ whead' = SpliceHead(whead, wnext, wlast, wcurr)
                        /\ wlast' = wlast
                   ELSE /\ wlast' = wcurr
                        /\ UNCHANGED <<wnext, whead>>
    /\ wcurr' = wnext'[wcurr]
    /\ wpc' = IF wcurr' = NULL THEN "pass_end" ELSE "probe"
    /\ file' = Append(file, <<"worker", wnodes[wcurr].txn_name>>)
    /\ UNCHANGED <<svars, log_open, buf, fileExists, up, hvars>>
    /\ UNCHANGED <<wphase, wrollback, wnodes>>
    /\ UNCHANGED ovars

\* bg_cleanup, the terminal command for the member curr.
bg_cleanup_command ==
    /\ wpc \in {"command", "command_unprobed"}
    /\ LET name == wnodes[wcurr].txn_name
           cmd == IF wrollback THEN "ROLLBACK" ELSE "COMMIT"
       IN  /\ wsent' = wsent \cup {<<cmd, name>>}
           /\ \E outcome \in (IF wnodes[wcurr].finished THEN {"fail"}
                              ELSE ResolveOutcomes(wnodes[wcurr].cnx, name)) :
                /\ remote' = IF Executed(outcome)
                             THEN [remote EXCEPT ![name] =
                                     IF wrollback THEN "rolledback" ELSE "committed"]
                             ELSE remote
                /\ IF CommandOk(outcome)
                   THEN /\ wnext' = Splice(wnext, wlast, wcurr)
                        /\ whead' = SpliceHead(whead, wnext, wlast, wcurr)
                        /\ wlast' = wlast
                   ELSE /\ wlast' = wcurr
                        /\ UNCHANGED <<wnext, whead>>
    /\ wcurr' = wnext'[wcurr]
    /\ wpc' = IF wcurr' = NULL THEN "pass_end" ELSE "probe"
    /\ UNCHANGED <<svars, fvars, up, hvars>>
    /\ UNCHANGED <<wphase, wrollback, wnodes>>
    /\ UNCHANGED ovars

\* Variant: the loop is left after one pass whatever is still in the list.
bg_cleanup_pass_end_OnePass ==
    /\ wpc = "pass_end"
    /\ wphase' = INCOMPLETE
    /\ wpc' = "unlink"
    /\ UNCHANGED <<svars, fvars, rvars, hvars>>
    /\ UNCHANGED <<wrollback, wnodes, whead, wnext, wlast, wcurr, wsent>>
    /\ UNCHANGED ovars

\* Variant: the end of a pass leaves the phase as it is.
bg_cleanup_pass_end_KeepPhase ==
    /\ wpc = "pass_end"
    /\ wphase' = wphase
    /\ wpc' = IF whead # NULL THEN "pass" ELSE "unlink"
    /\ UNCHANGED <<svars, fvars, rvars, hvars>>
    /\ UNCHANGED <<wrollback, wnodes, whead, wnext, wlast, wcurr, wsent>>
    /\ UNCHANGED ovars

\* bg_cleanup, the end of a pass: the phase and the loop condition.
bg_cleanup_pass_end ==
    /\ wpc = "pass_end"
    /\ wphase' = INCOMPLETE
    /\ wpc' = IF whead # NULL THEN "pass" ELSE "unlink"
    /\ UNCHANGED <<svars, fvars, rvars, hvars>>
    /\ UNCHANGED <<wrollback, wnodes, whead, wnext, wlast, wcurr, wsent>>
    /\ UNCHANGED ovars

\* tpc_process_file after bg_cleanup has returned: the log is unlinked and
\* the worker ends.
tpc_process_file_unlink ==
    /\ wpc = "unlink"
    /\ fileExists' = FALSE
    /\ wpc' = "off"
    /\ WorkerGone
    /\ UNCHANGED <<svars, log_open, buf, file, rvars, hvars>>
    /\ UNCHANGED ovars

\* The worker process dies; what it loaded is lost.
WorkerCrash ==
    /\ wpc # "off"
    /\ wpc' = "off"
    /\ WorkerGone
    /\ UNCHANGED <<svars, fvars, rvars, hvars>>
    /\ UNCHANGED ovars

\* ------------------------------------------------------------ specification
Next ==
    \/ \E cnx \in Conns : tpc_txnset_register(cnx)
    \/ tpc_prepare
    \/ tpc_prepare_exec
    \/ \E event \in XactEvents : txn_cleanup(event)
    \/ tpc_commit_exec
    \/ tpc_commit_log
    \/ tpc_rollback_exec
    \/ tpc_rollback_log
    \/ complete_write
    \/ complete_end
    \/ Crash
    \/ \E c \in Conns : RemoteDown(c)
    \/ \E c \in Conns : RemoteUp(c)
    \/ tpc_cleanup
    \/ tpc_process_file
    \/ bg_cleanup_pass
    \/ check_txn
    \/ bg_cleanup_command
    \/ bg_cleanup_pass_end
    \/ tpc_process_file_unlink
    \/ WorkerCrash

Spec == Init /\ [][Next]_vars

\* ------------------------------------------- the phase automaton on its own
\* Calls of the three functions of tpc_phase.c on every phase and label.
InitPhase ==
    /\ InitSet
    /\ t_old \in Phases
    /\ t_new \in Phases
    /\ t_label \in LabelInputs
    /\ t_result = NoCall
    /\ InitCalls

call_is_valid_transition ==
    /\ t_result' = [op |-> "is_valid_transition",
                    value |-> tpc_phase_is_valid_transition(t_old, t_new)]
    /\ UNCHANGED <<svars, fvars, rvars, hvars, wvars, cvars, nvars, t_old, t_new, t_label>>

call_get_label ==
    /\ t_result' = [op |-> "get_label", value |-> tpc_phase_get_label(t_new)]
    /\ UNCHANGED <<svars, fvars, rvars, hvars, wvars, cvars, nvars, t_old, t_new, t_label>>

\* tpc_phase_from_label on any string: the loop runs i = 0..6 over tables of
\* six entries, so a label that matches none of the six is also compared with
\* what lies behind phase_labels; when that matches, what lies behind phases
\* is returned, otherwise invalid txn phase is raised.
call_from_label ==
    /\ \E matched \in BOOLEAN, beyond \in 0..6 :
         t_result' = [op |-> "from_label",
                      value |-> IF t_label \in Labels
                                THEN tpc_phase_from_label(t_label)
                                ELSE IF matched THEN beyond
                                ELSE "InvalidTransactionState",
                      compared |-> IF t_label \in Labels
                                   THEN tpc_phase_from_label(t_label) + 1
                                   ELSE 7]
    /\ UNCHANGED <<svars, fvars, rvars, hvars, wvars, cvars, nvars, t_old, t_new, t_label>>

NextPhase ==
    \/ call_is_valid_transition
    \/ call_get_label
    \/ call_from_label

SpecPhase == InitPhase /\ [][NextPhase]_vars


\* ------------------------------------------------- a set that is still BEGIN
\* The state in which tpc_txnset_begin hands a new set back: the slot
\* filled, the callback registered, the phase BEGIN, the log created and
\* empty, no connection prepared yet.
InitBegin ==
    /\ nsets = 1
    /\ curr_txnset = 1
    /\ xact_callbacks = 1
    /\ txn_prefix = 1
    /\ tpc_phase = BEGIN
    /\ counter = 0
    /\ members = <<>>
    /\ txn = NoTxn
    /\ can_complete = TRUE
    /\ curr = 0
    /\ res = FALSE
    /\ pc = "idle"
    /\ error = "none"
    /\ log_open = TRUE
    /\ buf = <<>>
    /\ file = <<>>
    /\ fileExists = TRUE
    /\ remote = [n \in Names |-> "none"]
    /\ up = [c \in Conns |-> TRUE]
    /\ sent = <<>>
    /\ results = <<>>
    /\ bgw_extra = NULL
    /\ wpc = "off"
    /\ wphase = BEGIN
    /\ wrollback = FALSE
    /\ wnodes = <<>>
    /\ whead = NULL
    /\ wnext = <<>>
    /\ wlast = NULL
    /\ wcurr = NULL
    /\ wsent = {}
    /\ t_old = BEGIN
    /\ t_new = BEGIN
    /\ t_label = "begin"
    /\ t_result = NoCall
    /\ InitCalls

SpecBegin == InitBegin /\ [][Next]_vars

\* ------------------------------------------- the coordinator called directly
\* tpc_commit / tpc_rollback of twophasecommit.c take the set as an argument:
\* a caller that kept the pointer can call them again on a set that has been
\* driven to its end.
tpc_drive_again(phase) ==
    /\ pc = "idle"
    /\ curr_txnset = NULL
    /\ nsets > 0
    /\ DriveEnter(phase)
    /\ UNCHANGED ovars

NextApi ==
    \/ Next
    \/ \E phase \in {COMMIT, ROLLBACK} : tpc_drive_again(phase)

SpecApi == Init /\ [][NextApi]_vars

\* ----------------------------------------------- the worker left to its work
\* The system without kills of the worker from outside: the worker process
\* keeps running its loop (it sleeps one second between passes), so its
\* steps are taken as long as they are possible.
NextLive ==
    \/ \E cnx \in Conns : tpc_txnset_register(cnx)
    \/ tpc_prepare
    \/ tpc_prepare_exec
    \/ \E event \in XactEvents : txn_cleanup(event)
    \/ tpc_commit_exec
    \/ tpc_commit_log
    \/ tpc_rollback_exec
    \/ tpc_rollback_log
    \/ complete_write
    \/ complete_end
    \/ Crash
    \/ \E c \in Conns : RemoteDown(c)
    \/ \E c \in Conns : RemoteUp(c)
    \/ tpc_cleanup
    \/ tpc_process_file
    \/ bg_cleanup_pass
    \/ check_txn
    \/ bg_cleanup_command
    \/ bg_cleanup_pass_end
    \/ tpc_process_file_unlink

WorkerStep ==
    \/ tpc_process_file
    \/ bg_cleanup_pass
    \/ check_txn
    \/ bg_cleanup_command
    \/ bg_cleanup_pass_end
    \/ tpc_process_file_unlink

SpecLive == Init /\ [][NextLive]_vars /\ WF_vars(WorkerStep)

\* ------------------------------------------- cleanup of the file of a live set
\* tpc_cleanup takes any file name and checks nothing about the session that
\* owns the file: the administrator can start a worker on the log of a set
\* that is still live.
tpc_cleanup_live ==
    /\ nsets > 0
    /\ wpc = "off"
    /\ curr_txnset # NULL
    /\ pc # "crashed"
    /\ wpc' = "start"
    /\ UNCHANGED <<svars, fvars, rvars, hvars>>
    /\ UNCHANGED <<wphase, wrollback, wnodes, whead, wnext, wlast, wcurr, wsent>>
    /\ UNCHANGED ovars

NextRace ==
    \/ Next
    \/ tpc_cleanup_live

SpecRace == Init /\ [][NextRace]_vars

\* ----------------------------------- registration that subscribes each time
\* The tpc_txnset_register that ends with RegisterXactCallback: the callback
\* is registered by every call, for the first member and for each later one,
\* while cleanup unregisters one registration.
tpc_txnset_register_each(cnx) ==
    /\ pc = "idle"
    /\ IF curr_txnset = NULL
       THEN \E null_write \in {"dropped", "crash"} : tpc_txnset_begin(cnx, null_write)
       ELSE /\ txn' = [cnx |-> cnx, txn_name |-> <<0, 0>>]
            /\ xact_callbacks' = xact_callbacks + 1
            /\ pc' = "register"
            /\ UNCHANGED <<nsets, curr_txnset, txn_prefix, tpc_phase,
                           counter, members, can_complete, curr, res, error>>
            /\ UNCHANGED <<fvars, rvars, hvars, wvars>>
    /\ UNCHANGED ovars

NextEach ==
    \/ \E cnx \in Conns : tpc_txnset_register_each(cnx)
    \/ tpc_prepare
    \/ tpc_prepare_exec
    \/ \E event \in XactEvents : txn_cleanup(event)
    \/ tpc_commit_exec
    \/ tpc_commit_log
    \/ tpc_rollback_exec
    \/ tpc_rollback_log
    \/ complete_write
    \/ complete_end
    \/ Crash
    \/ \E c \in Conns : RemoteDown(c)
    \/ \E c \in Conns : RemoteUp(c)
    \/ tpc_cleanup
    \/ tpc_process_file
    \/ bg_cleanup_pass
    \/ check_txn
    \/ bg_cleanup_command
    \/ bg_cleanup_pass_end
    \/ tpc_process_file_unlink
    \/ WorkerCrash

SpecEach == Init /\ [][NextEach]_vars

\* ------------------------------------------------- power loss of the host
\* tpc_txnsetfile_write_action ends with fflush, which hands the lines to the
\* kernel; nothing in the code calls fsync.  When the host loses power the
\* file keeps what the kernel had written back by then, some prefix of its
\* lines; the backend and the worker are gone.
PowerLoss ==
    /\ curr_txnset # NULL
    /\ pc \notin {"crashed", "abort_failed"}
    /\ fileExists
    /\ \E written_back \in 0..Len(file) : file' = SubSeq(file, 1, written_back)
    /\ buf' = <<>>
    /\ log_open' = FALSE
    /\ pc' = "crashed"
    /\ wpc' = "off"
    /\ WorkerGone
    /\ UNCHANGED <<nsets, curr_txnset, xact_callbacks, txn_prefix, tpc_phase, counter,
                   members, txn, can_complete, curr, res, error>>
    /\ UNCHANGED <<fileExists, rvars, hvars>>
    /\ UNCHANGED ovars

NextPower ==
    \/ Next
    \/ PowerLoss

SpecPower == Init /\ [][NextPower]_vars

\* -------------------------------------------- sessions creating log files
\* tpc_txnsetfile_start run by several backends on one log directory: the
\* existence test of the path and the fopen in mode "w" are two system calls.
\* A session whose call raised is back at its main loop and may call again.
tpc_txnsetfile_start_access(s) ==
    /\ start_pc[s] \in {"idle", "InvalidTransactionState"}
    /\ \E g \in Gids :
         /\ start_gid' = [start_gid EXCEPT ![s] = g]
         /\ start_pc' = [start_pc EXCEPT ![s] =
                           IF logdir[g].exists THEN "InvalidTransactionState"
                           ELSE "fopen"]
    /\ UNCHANGED <<svars, fvars, rvars, hvars, wvars, tvars, nvars, logdir>>

\* fopen(logpath, "w") creates the file or truncates the one that is there.
tpc_txnsetfile_start_fopen(s) ==
    /\ start_pc[s] = "fopen"
    /\ \E created \in BOOLEAN :
         IF created
         THEN /\ logdir' = [logdir EXCEPT ![start_gid[s]] =
                                [exists |-> TRUE, lines |-> <<>>]]
              /\ start_pc' = [start_pc EXCEPT ![s] = "opened"]
         ELSE /\ logdir' = logdir
              /\ start_pc' = [start_pc EXCEPT ![s] = "InvalidTransactionState"]
    /\ UNCHANGED <<svars, fvars, rvars, hvars, wvars, tvars, nvars, start_gid>>

\* The first line the session prints through its handle, at the handle's
\* own offset 0.
tpc_txnsetfile_start_write(s) ==
    /\ start_pc[s] = "opened"
    /\ logdir' = [logdir EXCEPT ![start_gid[s]].lines =
                    IF @ = <<>> THEN << <<"line", s>> >>
                    ELSE [@ EXCEPT ![1] = <<"line", s>>]]
    /\ start_pc' = [start_pc EXCEPT ![s] = "written"]
    /\ UNCHANGED <<svars, fvars, rvars, hvars, wvars, tvars, nvars, start_gid>>

\* complete, for a set that could complete: fclose and unlink of the path.
complete_unlink(s) ==
    /\ start_pc[s] = "written"
    /\ logdir' = [logdir EXCEPT ![start_gid[s]] = NoFile]
    /\ start_pc' = [start_pc EXCEPT ![s] = "idle"]
    /\ UNCHANGED <<svars, fvars, rvars, hvars, wvars, tvars, nvars, start_gid>>

NextStart ==
    \/ \E s \in Sessions : tpc_txnsetfile_start_access(s)
    \/ \E s \in Sessions : tpc_txnsetfile_start_fopen(s)
    \/ \E s \in Sessions : tpc_txnsetfile_start_write(s)
    \/ \E s \in Sessions : complete_unlink(s)

SpecStart == Init /\ [][NextStart]_vars

\* ------------------------------------------------ the member name's length
\* The head of tpc_prepare on a set with a prefix of n_prefix characters (a
\* prefix tpc_begin accepts and the pid) and a counter of n_counter.
NAMEDATALEN == 64

\* The loop for (t = counter; t; t = t/10) ++lengthcounter.
RECURSIVE Digits(_)
Digits(t) == IF t = 0 THEN 0 ELSE 1 + Digits(t \div 10)

lengthcounter(prefix, cnt) == prefix + 2 + Digits(cnt)

\* Characters of "%s_%d" printed with the prefix and ++counter.
FullNameLen(prefix, cnt) == prefix + 1 + Digits(cnt + 1)

\* snprintf into txn_name[NAMEDATALEN] keeps at most NAMEDATALEN - 1 of them.
snprintf(size, len) == IF len < size THEN len ELSE size - 1

InitName ==
    /\ InitSet
    /\ InitStart
    /\ t_old = BEGIN
    /\ t_new = BEGIN
    /\ t_label = "begin"
    /\ t_result = NoCall
    /\ n_prefix \in 0..MaxPrefixLen
    /\ n_counter \in 0..MaxNameCounter
    /\ n_result = NoName

\* tpc_prepare up to the name: the length check, then the name is printed.
tpc_prepare_name ==
    /\ n_result = NoName
    /\ n_result' = IF lengthcounter(n_prefix, n_counter) > NAMEDATALEN
                   THEN [status |-> "ERRCODE_INDICATOR_OVERFLOW", length |-> 0]
                   ELSE [status |-> "named",
                         length |-> snprintf(NAMEDATALEN, FullNameLen(n_prefix, n_counter))]
    /\ UNCHANGED <<svars, fvars, rvars, hvars, wvars, tvars, cvars, n_prefix, n_counter>>

\* tpc_prepare from the name on: the todo line and PREPARE TRANSACTION with
\* the name that was printed.
tpc_prepare_send ==
    /\ n_result.status = "named"
    /\ n_result' = [n_result EXCEPT !.status = "sent"]
    /\ UNCHANGED <<svars, fvars, rvars, hvars, wvars, tvars, cvars, n_prefix, n_counter>>

NextName ==
    \/ tpc_prepare_name
    \/ tpc_prepare_send

SpecName == InitName /\ [][NextName]_vars


\* ================================================================== claims
\* The set has been driven to its end and cleaned up by its session.
Terminated == pc = "idle" /\ curr_txnset = NULL /\ nsets > 0

MemberNames == [i \in 1..Len(members) |-> members[i].txn_name]

IsTerminalCommand(c) == c[1] # "PREPARE"

TerminalSent == SelectSeq(sent, IsTerminalCommand)

AllSucceeded == \A i \in 1..Len(results) : results[i]

\* Label of the last phase line of a log, and of the last one that is not
\* 'incomplete'.
RECURSIVE LastPhaseLabel(_, _)
LastPhaseLabel(lines, label) ==
    IF lines = <<>> THEN label
    ELSE LastPhaseLabel(Tail(lines),
                        IF Head(lines)[1] = "phase" THEN Head(lines)[2] ELSE label)

RECURSIVE LastNonIncompleteLabel(_, _)
LastNonIncompleteLabel(lines, label) ==
    IF lines = <<>> THEN label
    ELSE LastNonIncompleteLabel(Tail(lines),
                                IF Head(lines)[1] = "phase" /\ Head(lines)[2] # "incomplete"
                                THEN Head(lines)[2] ELSE label)

C2_CommandFromLastRealPhase ==
    wpc \notin {"off", "start"} =>
        \A c \in wsent :
            c[1] = IF LastNonIncompleteLabel(file, "none") = "commit"
                   THEN "COMMIT" ELSE "ROLLBACK"

\* C3: is_valid_transition holds exactly for the eight pairs of the table.
LegalTransitions ==
    {<<BEGIN, PREPARE>>, <<PREPARE, COMMIT>>, <<PREPARE, ROLLBACK>>,
     <<COMMIT, COMPLETE>>, <<COMMIT, INCOMPLETE>>, <<ROLLBACK, COMPLETE>>,
     <<ROLLBACK, INCOMPLETE>>, <<INCOMPLETE, COMPLETE>>}

C3_TransitionTable ==
    t_result.op = "is_valid_transition" =>
        (t_result.value <=> <<t_old, t_new>> \in LegalTransitions)

C3_Witness ==
    /\ t_result.op = "is_valid_transition"
    /\ t_result.value
    /\ t_old = INCOMPLETE
    /\ t_new = COMPLETE

\* C4: a set driven to its end is COMPLETE exactly when the terminal command
\* succeeded on every member, and INCOMPLETE otherwise.
C4_CompleteIffAllSucceeded ==
    Terminated =>
        tpc_phase = IF Len(results) = Len(members) /\ AllSucceeded
                    THEN COMPLETE ELSE INCOMPLETE

C4_Witness ==
    /\ Terminated
    /\ results # <<>>
    /\ ~AllSucceeded
    /\ tpc_phase = INCOMPLETE

C7_OnlyCoordinatorRemoves ==
    [][ (fileExists /\ ~fileExists')
            => (pc = "complete_end" /\ tpc_phase' = COMPLETE) ]_vars

\* C7 amended: the log is removed either by the coordinator's complete with
\* phase COMPLETE or by the recovery worker after its member list has
\* become empty.
C7_RemovedByCompleteOrWorker ==
    [][ (fileExists /\ ~fileExists')
            => \/ (pc = "complete_end" /\ tpc_phase' = COMPLETE)
               \/ (wpc = "unlink" /\ whead = NULL /\ wpc' = "off") ]_vars

\* The set ended INCOMPLETE and its log has been removed since.
C7_Witness ==
    /\ Terminated
    /\ tpc_phase = INCOMPLETE
    /\ ~fileExists

\* C8: when set creation, register or a drive with its complete returns,
\* the phase in memory is the one of the last phase line of the log, or the
\* log does not exist and the phase is COMPLETE.
OperationReturns ==
    \/ (pc = "idle" /\ curr_txnset = NULL /\ pc' = "register")
    \/ (pc = "prepare_exec" /\ pc' = "idle")
    \/ (pc = "complete_end" /\ pc' = "idle")

C8_PhaseEqualsLog ==
    [][ OperationReturns
            => \/ (fileExists' /\ LastPhaseLabel(file', "none") = tpc_phase_get_label(tpc_phase'))
               \/ (~fileExists' /\ tpc_phase' = COMPLETE) ]_vars

\* C9: after n >= 1 registrations and a commit on which every COMMIT
\* PREPARED succeeded the log written is phase begin, phase prepare, the n
\* todo lines, phase commit, the n OK lines, phase complete; the file is
\* gone and the phase is COMPLETE.
HappyLog ==
    <<<<"phase", "begin">>, <<"phase", "prepare">>>>
    \o [i \in 1..Len(members) |->
          <<"prepare", <<"postgresql://", members[i].cnx>>, <<txn_prefix, i>>, "todo">>]
    \o <<<<"phase", "commit">>>>
    \o [i \in 1..Len(members) |->
          <<"commit", <<"postgresql://", members[i].cnx>>, <<txn_prefix, i>>, "OK">>]
    \o <<<<"phase", "complete">>>>

HappyCommit ==
    /\ Terminated
    /\ members # <<>>
    /\ Len(results) = Len(members)
    /\ AllSucceeded
    /\ \A i \in 1..Len(TerminalSent) : TerminalSent[i][1] = "COMMIT"
    /\ error = "none"

C9_HappyCommitLog ==
    HappyCommit => (file = HappyLog /\ ~fileExists /\ tpc_phase = COMPLETE)

\* C10: a PREPARE TRANSACTION the remote does not acknowledge makes register
\* fail with InvalidTxnState without appending the member; the abort that
\* follows sends ROLLBACK PREPARED to every member registered before, and
\* when all of them succeed the set is COMPLETE and its log unlinked.
PrepareNotAcknowledged ==
    \E i \in 1..Len(sent) :
        /\ sent[i][1] = "PREPARE"
        /\ \A j \in 1..Len(members) : members[j].txn_name # sent[i][2]

C11_CommitAtBegin ==
    [][ /\ (tpc_phase = BEGIN /\ curr_txnset # NULL /\ pc = "idle"
              /\ pc' = "aborting" /\ error' # "FeatureNotSupported")
            => /\ error' = "InvalidTxnState"
               /\ tpc_phase' = BEGIN
               /\ sent' = sent
               /\ file' = file
               /\ buf' = buf
        /\ (tpc_phase = BEGIN /\ pc = "aborting" /\ error = "InvalidTxnState"
              /\ pc' \notin {"aborting", "crashed"})
            => pc' # "abort_failed" ]_vars

\* The first half of C11 alone.
C11_CommitAtBeginRejected ==
    [][ (tpc_phase = BEGIN /\ curr_txnset # NULL /\ pc = "idle"
           /\ pc' = "aborting" /\ error' # "FeatureNotSupported")
            => /\ error' = "InvalidTxnState"
               /\ tpc_phase' = BEGIN
               /\ sent' = sent
               /\ file' = file
               /\ buf' = buf ]_vars


\* C12: a commit or rollback entered on a set that has left PREPARE fails
\* with InvalidTxnState and changes neither the phase, the log nor any
\* remote; and over the whole life of a set no member is sent more than one
\* terminal command by the session.
DriveEntered ==
    /\ pc = "idle"
    /\ nsets > 0
    /\ pc' \in {"aborting", "abort_failed", "complete", "commit_exec", "rollback_exec"}

C12_DrivenOnce ==
    [][ /\ (DriveEntered /\ tpc_phase \notin {BEGIN, PREPARE})
            => /\ error' = "InvalidTxnState"
               /\ tpc_phase' = tpc_phase
               /\ sent' = sent
               /\ remote' = remote
               /\ file' = file
               /\ buf' = buf
        /\ \A i, j \in 1..Len(TerminalSent') :
               TerminalSent'[i][2] = TerminalSent'[j][2] => i = j ]_vars

\* A set driven to its end, with a terminal command sent, was driven again
\* and the call was refused.
C12_Witness ==
    /\ pc \in {"aborting", "abort_failed"}
    /\ curr_txnset = NULL
    /\ tpc_phase \in {COMPLETE, INCOMPLETE}
    /\ error = "InvalidTxnState"
    /\ TerminalSent # <<>>


\* C13: a prepare or pre-prepare event delivered to the callback while a set
\* is active raises FeatureNotSupported; no command is sent, no line is
\* written, and the phase and the member list stay as they are.
C13_PrepareEventRefused ==
    [][ (\E event \in {"PREPARE", "PRE_PREPARE"} : txn_cleanup(event))
            => /\ error' = "FeatureNotSupported"
               /\ sent' = sent
               /\ remote' = remote
               /\ file' = file
               /\ buf' = buf
               /\ tpc_phase' = tpc_phase
               /\ members' = members ]_vars

C13_Witness ==
    /\ pc = "aborting"
    /\ error = "FeatureNotSupported"
    /\ tpc_phase = PREPARE
    /\ members # <<>>


C14_SlotOnly ==
    [][ /\ (pc = "idle" /\ curr_txnset # NULL /\ pc' = "register")
            => /\ nsets' = nsets
               /\ curr_txnset' = curr_txnset
               /\ txn_prefix' = txn_prefix
               /\ fileExists' = fileExists
               /\ file' = file
        /\ (pc = "prepare_exec" /\ pc' = "idle")
            => /\ members' = Append(members, txn)
               /\ txn.txn_name[1] = curr_txnset
        /\ (pc = "complete_end" /\ pc' = "idle")
            => curr_txnset' = NULL
        /\ (pc = "idle" /\ curr_txnset = NULL /\ pc' = "register")
            => /\ nsets' = nsets + 1
               /\ curr_txnset' = nsets + 1
               /\ members' = <<>>
               /\ file' = <<>> ]_vars


\* C15: when a set has been driven to its end, the log holds for each member
\* exactly one line 'commit|rollback <url> <name> OK|BAD'.
TerminalLines(name) ==
    {k \in 1..Len(file) :
        /\ file[k][1] \in {"commit", "rollback"}
        /\ file[k][3] = name
        /\ file[k][4] \in {"OK", "BAD"}}

C15_OneTerminalLine ==
    Terminated =>
        \A i \in 1..Len(members) : Cardinality(TerminalLines(members[i].txn_name)) = 1

C15_Witness ==
    /\ Terminated
    /\ members # <<>>
    /\ ~AllSucceeded
    /\ \E k \in 1..Len(file) : file[k][1] = "commit" /\ file[k][4] = "BAD"


\* C16: the names of the members of a set are pairwise distinct, and the
\* name of a member's todo line is the name of its PREPARE TRANSACTION, of
\* its COMMIT / ROLLBACK PREPARED, of its terminal action line, and of the
\* members the worker loads and the commands it sends after a reload.
\* The log of the set created last; a set whose creation died before
\* tpc_txnsetfile_start has none.
CurrentLog == IF txn_prefix = nsets THEN file ELSE <<>>

TodoNames ==
    {CurrentLog[k][3] :
        k \in {k \in 1..Len(CurrentLog) :
                  CurrentLog[k][1] # "phase" /\ CurrentLog[k][4] = "todo"}}

Written ==
    /\ pc = "idle"
    /\ nsets > 0
    /\ fileExists
    /\ txn_prefix = nsets

C17_RoundTrip ==
    Written =>
        /\ HasPhaseLine(file)
        /\ FromFilePhase(file, BEGIN) = tpc_phase
        /\ Len(FromFileNodes(file)) = Len(members)
        /\ \A i \in 1..Len(members) :
               /\ ConnUrl(FromFileNodes(file)[i].cnx) = ConnUrl(members[i].cnx)
               /\ FromFileNodes(file)[i].txn_name = members[i].txn_name

\* The phase alone.
C17_RoundTripPhase ==
    Written => (HasPhaseLine(file) /\ FromFilePhase(file, BEGIN) = tpc_phase)

\* The round trip of a set that has not been driven yet.
C17_RoundTripPrepared ==
    (Written /\ curr_txnset # NULL) =>
        /\ Len(FromFileNodes(file)) = Len(members)
        /\ \A i \in 1..Len(members) :
               /\ ConnUrl(FromFileNodes(file)[i].cnx) = ConnUrl(members[i].cnx)
               /\ FromFileNodes(file)[i].txn_name = members[i].txn_name


\* C18: the worker is restartable.  What a run does is a function of the
\* log alone: the member list of a run is the list loaded from the file
\* and its terminal command is the one the phase of the file gives,
\* whatever earlier runs did before they died; every command a run sends
\* is that command; and a gid that has been committed or rolled back is
\* never changed again.  Hence a run after a crash resolves every member
\* as an uninterrupted run on the same file does.
LogDecision == IF FromFilePhase(file, BEGIN) # COMMIT THEN "ROLLBACK" ELSE "COMMIT"

C18_Restartable ==
    [][ /\ (wpc' \notin {"off", "start"} /\ wnodes' # <<>>)
            => /\ wrollback' = (LogDecision' = "ROLLBACK")
               /\ Len(wnodes') = Len(FromFileNodes(file'))
               /\ \A k \in 1..Len(wnodes') :
                      /\ wnodes'[k].txn_name = FromFileNodes(file')[k].txn_name
                      /\ wnodes'[k].cnx = FromFileNodes(file')[k].cnx
        /\ \A c \in wsent' \ wsent : c[1] = LogDecision
        /\ (nsets' = nsets)
            => \A n \in Names :
                   remote[n] \in {"committed", "rolledback"} => remote'[n] = remote[n] ]_vars

\* The session died before it sent any terminal command, a worker rolled a
\* member back and died, and a later run is in its member loop on the same
\* file without having sent anything itself.
C18_Witness ==
    /\ fileExists
    /\ TerminalSent = <<>>
    /\ wpc = "probe"
    /\ wsent = {}
    /\ \E n \in Names : remote[n] = "rolledback"


\* C19: if from some point on every remote stays reachable, a worker that
\* has entered its loop eventually leaves it with its list empty and
\* unlinks the log.
AllUp == \A c \in Conns : up[c]

C19_RecoveryLive ==
    (<>[]AllUp) => ((wpc = "pass") ~> (wpc = "off" /\ ~fileExists))


\* C20: a worker started by tpc_cleanup on the log of a live set does no
\* harm: while the session is live the worker sends no terminal command
\* (its probes short-circuit every retry), no gid is sent COMMIT PREPARED by
\* one of the two and ROLLBACK PREPARED by the other, and the session and
\* the worker are never both at a query on the same gid.
SessionLive == curr_txnset # NULL /\ pc \notin {"crashed", "abort_failed"}

SessionGid ==
    IF pc = "prepare_exec" THEN {txn.txn_name}
    ELSE IF pc \in {"commit_exec", "rollback_exec"} THEN {members[curr].txn_name}
    ELSE {}

WorkerGid ==
    IF wpc \in {"probe", "command", "command_unprobed"} THEN {wnodes[wcurr].txn_name} ELSE {}

C20_CleanupRaceSafe ==
    /\ SessionLive => wsent = {}
    /\ \A n \in Names :
           /\ ~ (<<"ROLLBACK", n>> \in wsent /\ \E i \in 1..Len(sent) : sent[i] = <<"COMMIT", n>>)
           /\ ~ (<<"COMMIT", n>> \in wsent /\ \E i \in 1..Len(sent) : sent[i] = <<"ROLLBACK", n>>)
    /\ SessionGid \cap WorkerGid = {}

\* The three parts of C20, one by one.
C20_NoCommandWhileLive == SessionLive => wsent = {}

C20_NoOppositeCommand ==
    \A n \in Names :
        /\ ~ (<<"ROLLBACK", n>> \in wsent /\ \E i \in 1..Len(sent) : sent[i] = <<"COMMIT", n>>)
        /\ ~ (<<"COMMIT", n>> \in wsent /\ \E i \in 1..Len(sent) : sent[i] = <<"ROLLBACK", n>>)

C20_NotSimultaneous == SessionGid \cap WorkerGid = {}


\* C21: when tpc_register_bgworker, called by complete, does not start a
\* worker, no error is raised: complete returns to the host, the phase is
\* INCOMPLETE, and the log is still on disk with the content it had.
RegisterCalled == pc = "complete_end" /\ bgw_extra' # bgw_extra

C21_LaunchFailureWarned ==
    [][ (RegisterCalled /\ wpc' # "start")
            => /\ pc' = "idle"
               /\ error' = error
               /\ tpc_phase' = INCOMPLETE
               /\ fileExists'
               /\ file' = file ]_vars

\* What holds of every call of tpc_register_bgworker that returns.
C21_LaunchFailureReturned ==
    [][ (RegisterCalled /\ wpc' # "start" /\ pc' = "idle")
            => /\ error' = error
               /\ tpc_phase' = INCOMPLETE
               /\ fileExists'
               /\ file' = file ]_vars


\* C22 as stated: every change of the phase of a set, in the session and in
\* the worker (the phase lines the reload steps through, and the end of each
\* pass of the loop), is a valid transition; only the BEGIN of a new set is
\* assigned unchecked.
IsPhaseLine(line) == line[1] = "phase"

PhaseLinePhases(lines) ==
    [i \in 1..Len(SelectSeq(lines, IsPhaseLine)) |->
        tpc_phase_from_label(SelectSeq(lines, IsPhaseLine)[i][2])]

SessionPhaseChecked ==
    (tpc_phase' # tpc_phase /\ nsets' = nsets)
        => tpc_phase_is_valid_transition(tpc_phase, tpc_phase')

ReloadPhaseChecked ==
    (wpc = "start" /\ wpc' = "pass")
        => \A i \in 1..(Len(PhaseLinePhases(file)) - 1) :
               tpc_phase_is_valid_transition(PhaseLinePhases(file)[i],
                                             PhaseLinePhases(file)[i + 1])

C23_SecondRegister ==
    [][ /\ (pc = "register" /\ tpc_phase = PREPARE /\ pc' \notin {"register", "crashed"})
            => /\ pc' = "prepare_exec"
               /\ error' = error
               /\ tpc_phase' = PREPARE
        /\ (pc = "prepare_exec" /\ members # <<>> /\ pc' = "idle")
            => /\ members' = Append(members, txn)
               /\ tpc_phase' = PREPARE ]_vars


\* C24: write-ahead of the PREPARE.  Whenever the session sends PREPARE
\* TRANSACTION for a name, the line 'prepare <url> <name> todo' is already
\* in the log file; hence every PREPARE ever sent has its todo line.
TodoLineInFile(t) ==
    \E k \in 1..Len(file) : file[k] = <<"prepare", ConnUrl(t.cnx), t.txn_name, "todo">>

C24_TodoBeforePrepare ==
    [][ (Len(sent') = Len(sent) + 1 /\ sent'[Len(sent')][1] = "PREPARE")
            => /\ sent'[Len(sent')][2] = txn.txn_name
               /\ fileExists
               /\ TodoLineInFile(txn) ]_vars

\* A PREPARE TRANSACTION went out and was not acknowledged; its todo line is
\* in the file although the member was never appended.
C24_Witness ==
    /\ pc = "aborting"
    /\ sent # <<>>
    /\ sent[Len(sent)] = <<"PREPARE", txn.txn_name>>
    /\ ~res
    /\ members = <<>>
    /\ TodoLineInFile(txn)


\* C25 as stated: the action line of every command the session sends, the
\* terminal commands included, is in the file before the command goes out,
\* and the action lines are in the order of the commands.
IsActionLine(line) == line[1] # "phase"

ActionLines == SelectSeq(CurrentLog, IsActionLine)

CmdLabel(cmd) ==
    IF cmd = "PREPARE" THEN "prepare" ELSE IF cmd = "COMMIT" THEN "commit" ELSE "rollback"

LineIsOf(line, c) == line[1] = CmdLabel(c[1]) /\ line[3] = c[2]

Sends == Len(sent') = Len(sent) + 1

SameOrder ==
    \A i \in 1..Len(sent) : i <= Len(ActionLines) => LineIsOf(ActionLines[i], sent[i])

LastActionIndex(lines) ==
    IF \E k \in 1..Len(lines) : IsActionLine(lines[k])
    THEN CHOOSE k \in 1..Len(lines) :
            /\ IsActionLine(lines[k])
            /\ \A j \in (k + 1)..Len(lines) : ~IsActionLine(lines[j])
    ELSE 0

GoesDown == pc # "crashed" /\ pc' = "crashed" /\ nsets' = nsets /\ fileExists

C26_ActionLinesSurvive ==
    [][ GoesDown
            => /\ Len(file') >= LastActionIndex(file)
               /\ \A k \in 1..LastActionIndex(file) : file'[k] = file[k] ]_vars


\* C27: order.  The PREPARE TRANSACTIONs of a set go out in the order of the
\* registrations (the order of the counter), the members are listed in that
\* order, and a drive sends its one terminal command to the members in list
\* order, to each member exactly once.
IsPrepareCommand(c) == c[1] = "PREPARE"

PrepareSent == SelectSeq(sent, IsPrepareCommand)

C28_SubscribedOnce ==
    [][ /\ (pc' # "crashed")
            => xact_callbacks' = (IF curr_txnset' # NULL THEN 1 ELSE 0)
        /\ (pc = "idle" /\ curr_txnset # NULL /\ pc' = "register")
            => xact_callbacks' = xact_callbacks
        /\ (\E event \in XactEvents : txn_cleanup(event))
            => curr_txnset # NULL ]_vars


\* C29: a member whose probe returns zero rows is taken out of the list and
\* is never sent a terminal command, neither in that pass nor later; the
\* other members stay in the list.
RECURSIVE LinkedFrom(_, _)
LinkedFrom(node, fuel) ==
    IF node = NULL \/ fuel = 0 THEN {}
    ELSE {node} \cup LinkedFrom(wnext[node], fuel - 1)

Linked == LinkedFrom(whead, Len(wnodes))

ZeroRows ==
    /\ wpc = "probe"
    /\ Len(wnodes') = Len(wnodes)
    /\ ~wnodes[wcurr].finished
    /\ wnodes'[wcurr].finished

C29_ZeroRowsDropped ==
    [][ /\ ZeroRows => Linked' = Linked \ {wcurr}
        /\ bg_cleanup_command => ~wnodes[wcurr].finished ]_vars

\* The same for a probe made while last is still NULL.
C29_ZeroRowsDroppedFirst ==
    [][ (ZeroRows /\ wlast = NULL) => Linked' = Linked \ {wcurr} ]_vars


\* C30 as stated: a member whose probe fails is retained, that is, it is
\* still in the list when the pass moves on from it.
ProbeFailed == check_txn /\ ~wnodes[wcurr].finished /\ ~up[wnodes[wcurr].cnx]

LeavesUnprobed ==
    /\ wpc = "command_unprobed"
    /\ wpc' \in {"probe", "pass_end"}
    /\ ~wnodes[wcurr].finished

NoMemberPrepared ==
    \A k \in 1..Len(wnodes) : remote[wnodes[k].txn_name] # "prepared"

C31_UnlinkOnlyWhenResolved ==
    [][ /\ (wpc = "pass_end" /\ wpc' = "unlink") => whead = NULL
        /\ (wpc = "unlink" /\ fileExists /\ ~fileExists')
            => (whead = NULL /\ Linked = {} /\ NoMemberPrepared)
        /\ (wpc \in {"probe", "command", "command_unprobed"}
              /\ Len(wnodes') = Len(wnodes) /\ Linked' # Linked)
            => /\ Linked' = Linked \ {wcurr}
               /\ \/ ZeroRows
                  \/ /\ wpc \in {"command", "command_unprobed"}
                     /\ remote'[wnodes[wcurr].txn_name] =
                            (IF wrollback THEN "rolledback" ELSE "committed")
        /\ (wpc' = "unlink") => NoMemberPrepared' ]_vars

\* The worker has sent a terminal command, emptied its list and left the
\* loop: it is about to unlink the log.
C31_Witness ==
    /\ wpc = "unlink"
    /\ fileExists
    /\ wnodes # <<>>
    /\ wsent # {}
    /\ whead = NULL
    /\ NoMemberPrepared


\* C32: on every path of a live set that reaches complete, the log handle is
\* closed exactly once, by complete, and no line is written to the log after
\* the close.
C32_ClosedOnceByComplete ==
    [][ /\ (pc = "complete" /\ pc' = "complete_end") => (log_open /\ ~log_open')
        /\ (log_open /\ ~log_open' /\ pc' # "crashed")
            => (pc = "complete" /\ pc' = "complete_end")
        /\ (~log_open /\ ~log_open') => (file' = file /\ buf' = <<>>)
        /\ (~log_open /\ log_open') => (curr_txnset = NULL /\ curr_txnset' # NULL) ]_vars

\* complete has written the terminal phase line of a set with a member and
\* closed the handle.
C32_Witness ==
    /\ pc = "complete_end"
    /\ ~log_open
    /\ members # <<>>
    /\ file # <<>>
    /\ file[Len(file)] \in {PhaseLine(COMPLETE), PhaseLine(INCOMPLETE)}


\* C33: creating a set file for a prefix whose path exists fails with
\* InvalidTransactionState and leaves the file's content unchanged, also when
\* two sessions create a set with the same prefix at the same time: at most
\* one creation succeeds.
Created(s) == start_pc[s] \in {"opened", "written"}

C33_AtMostOneCreation ==
    \A s1, s2 \in Sessions :
        (s1 # s2 /\ Created(s1) /\ Created(s2)) => start_gid[s1] # start_gid[s2]


\* C34: every set log file that exists has 'phase begin' as its first line:
\* creation opens the file and the BEGIN line is recorded in it before any
\* other line.
C34_FirstLineBegin ==
    (fileExists /\ file \o buf # <<>>) => (file \o buf)[1] = PhaseLine(BEGIN)


\* C35: tpc_phase_from_label returns the phase p with tpc_phase_get_label(p)
\* = label for each of the six labels, and for every other string raises
\* InvalidTransactionState after comparing with the six table entries only.
C35_FromLabelTotal ==
    t_result.op = "from_label" =>
        IF t_label \in Labels
        THEN /\ t_result.value \in Phases
             /\ tpc_phase_get_label(t_result.value) = t_label
        ELSE /\ t_result.compared <= 6
             /\ t_result.value = "InvalidTransactionState"


C37_NoOrphanedPrepared ==
    (nsets > 0 /\ tpc_phase = COMPLETE /\ ~fileExists)
        => \A k \in 1..Len(file) :
              IsActionLine(file[k]) => remote[file[k][3]] # "prepared"


\* C38: the worker's list stays well formed across passes: a member that was
\* spliced out is never probed again, and when the last member still in the
\* list is removed the head becomes empty, so that the loop can end.
C38_ListWellFormed ==
    [][ /\ check_txn => ~wnodes[wcurr].finished
        /\ (ZeroRows /\ Linked = {wcurr}) => whead' = NULL ]_vars

\* The first part alone: no probe of a member whose connection was finished.
C38_NoProbeAfterSplice ==
    [][ check_txn => ~wnodes[wcurr].finished ]_vars

\* The second part alone.
C38_LastRemovalEmptiesHead ==
    [][ (ZeroRows /\ Linked = {wcurr}) => whead' = NULL ]_vars


\* C39: every abort event delivered to an active set, whatever its phase,
\* ends with the slot cleared and the callback unsubscribed: the handler goes
\* into the rollback and from there to cleanup, and never leaves by raising.
AbortDelivered ==
    /\ curr_txnset # NULL
    /\ \E event \in {"ABORT", "PARALLEL_ABORT"} : txn_cleanup(event)

C39_AbortAlwaysCleans ==
    [][ /\ AbortDelivered => pc' \in {"rollback_exec", "complete"}
        /\ (pc = "complete_end" /\ pc' = "idle")
            => (curr_txnset' = NULL /\ xact_callbacks' = 0) ]_vars


\* C40: the worker never changes the content of the log: from the reload to
\* the final unlink the lines of the file are the same, so a worker stopped
\* or crashed at any point leaves exactly the log it started from.
C40_WorkerLeavesLog ==
    [][ /\ (WorkerStep \/ WorkerCrash) => (file' = file /\ buf' = buf)
        /\ (WorkerStep \/ WorkerCrash) /\ fileExists' # fileExists
            => (wpc = "unlink" /\ whead = NULL /\ ~fileExists') ]_vars

\* The worker has sent a terminal command and is still in its loop, the log
\* it loaded in place.
C40_Witness ==
    /\ wpc \in {"probe", "pass_end", "pass"}
    /\ wsent # {}
    /\ fileExists
    /\ wnodes = FromFileNodes(file)

====
